---------------------------- MODULE Spec2Model ----------------------------
(***************************************************************************)
(* Model of src/main.py (ResizeRotated): rotation of a point about an      *)
(* origin, the two anchor points of a dragged handle, and the rectangle    *)
(* rebuilt from them.                                                      *)
(*                                                                         *)
(* Numbers.  The program computes with Python floats, and so does the      *)
(* model: a coordinate is an IEEE-754 double, written s * m * 2^e, and     *)
(* FAdd, FSub, FMul and FHalf round as the hardware does.  sin and cos of  *)
(* the multiples of 90 degrees are the doubles the math module returns     *)
(* (cos(radians(90)) is 6.123233995736766e-17, not 0), so a rotation by a  *)
(* quarter turn is exact only up to rounding.  The inputs are coordinates   *)
(* that are integers (multiples of 4) or the doubles 0.1 and 0.2, whose     *)
(* sums and differences are rounded, and angles that are multiples of 90.  *)
(* The two zeros of IEEE-754 are one value here, as they are for Python's  *)
(* ==; no operation of the program (there is no division by a variable,    *)
(* no copysign) tells them apart.                                          *)
(*                                                                         *)
(* State.  The functions are pure; the state is a caller's session: the    *)
(* arguments it holds, the sequence of functions it has called, and the    *)
(* value the last call returned.                                           *)
(***************************************************************************)
EXTENDS Integers, Sequences, FiniteSets

VARIABLES
    session,    \* "drag": the caller holds (rectangle, target, angle, handle)
                \* "points": the caller holds (corner_a, corner_c, center, angle)
    calls,      \* names of the functions called so far, in order
    rectangle,  \* Rectangle argument of get_adjusted_point
    target,     \* Point argument of get_adjusted_point
    angle,      \* angle argument, in degrees (an int)
    handle,     \* handle argument (a Handle value, or an int that is none)
    corner_a,   \* first Point argument of adjust_points / to_rect / rotate
    corner_c,   \* second Point argument of adjust_points / to_rect
    center,     \* centre / origin argument of adjust_points / rotate
    ret,        \* value returned by the last call (None before any call)
    raised      \* name of the exception the last call raised, "" if none

vars == <<session, calls, rectangle, target, angle, handle,
          corner_a, corner_c, center, ret, raised>>

----------------------------------------------------------------------------
(* Bounds of the inputs *)

MaxCoord == 0
MaxSize == 1
MaxTurns == 2
MaxIndex == 2

\* "equal within floating-point tolerance": closer than 2^(-TolBits), which
\* is 9.3e-10 for 30
TolBits == 30

----------------------------------------------------------------------------
(* Natural numbers of any size: little-endian sequences of limbs below      *)
(* 2^LimbBits, without leading (high) zero limbs; <<>> is 0.  The limb      *)
(* width keeps every product and column sum below 2^31.                     *)

LimbBits == 2 * 7
Base == 2 ^ LimbBits

RECURSIVE NTrim(_)
NTrim(a) ==
    IF a = <<>> THEN a
    ELSE IF a[Len(a)] = 0 THEN NTrim(SubSeq(a, 1, Len(a) - 1)) ELSE a

\* limbs of the number whose i-th "digit" is a[i] >= 0 (digits may exceed
\* Base), plus the carry c
RECURSIVE NCarry(_, _)
NCarry(a, c) ==
    IF a = <<>>
      THEN IF c = 0 THEN <<>> ELSE <<c % Base>> \o NCarry(<<>>, c \div Base)
      ELSE <<(a[1] + c) % Base>> \o NCarry(Tail(a), (a[1] + c) \div Base)

NLimb(a, i) == IF i >= 1 /\ i <= Len(a) THEN a[i] ELSE 0

NMax(i, j) == IF i < j THEN j ELSE i

NAdd(a, b) ==
    NCarry([i \in 1..NMax(Len(a), Len(b)) |-> NLimb(a, i) + NLimb(b, i)], 0)

\* a - b for a >= b
RECURSIVE NBorrow(_, _, _, _)
NBorrow(a, b, i, borrow) ==
    IF i > Len(a) THEN <<>>
    ELSE LET v == a[i] - NLimb(b, i) - borrow
         IN  IF v < 0 THEN <<v + Base>> \o NBorrow(a, b, i + 1, 1)
                      ELSE <<v>> \o NBorrow(a, b, i + 1, 0)

NSub(a, b) == NTrim(NBorrow(a, b, 1, 0))

\* -1, 0, 1 as a < b, a = b, a > b
RECURSIVE NCmpFrom(_, _, _)
NCmpFrom(a, b, i) ==
    IF i = 0 THEN 0
    ELSE IF a[i] < b[i] THEN -1
    ELSE IF a[i] > b[i] THEN 1
    ELSE NCmpFrom(a, b, i - 1)

NCmp(a, b) ==
    IF Len(a) < Len(b) THEN -1
    ELSE IF Len(a) > Len(b) THEN 1
    ELSE NCmpFrom(a, b, Len(a))

\* sum of a[i] * b[k + 1 - i]: column k of the long multiplication
RECURSIVE NColumn(_, _, _, _)
NColumn(a, b, k, i) ==
    IF i > Len(a) \/ i > k THEN 0
    ELSE a[i] * NLimb(b, k + 1 - i) + NColumn(a, b, k, i + 1)

NMul(a, b) ==
    IF a = <<>> \/ b = <<>> THEN <<>>
    ELSE NCarry([k \in 1..(Len(a) + Len(b) - 1) |-> NColumn(a, b, k, 1)], 0)

\* a * 2^s
NShl(a, s) ==
    LET p == 2 ^ (s % LimbBits)
    IN  IF a = <<>> \/ s = 0 THEN a
        ELSE [i \in 1..(s \div LimbBits) |-> 0]
                \o NCarry([i \in 1..Len(a) |-> a[i] * p], 0)

\* floor(a / 2^s)
NShr(a, s) ==
    LET q == s \div LimbBits
        p == 2 ^ (s % LimbBits)
    IN  IF s = 0 THEN a
        ELSE IF q >= Len(a) THEN <<>>
        ELSE NTrim([i \in 1..(Len(a) - q) |->
                      (a[i + q] \div p) + (NLimb(a, i + q + 1) % p) * (Base \div p)])

\* bit i (from 0) of a
NBit(a, i) == (NLimb(a, i \div LimbBits + 1) \div 2 ^ (i % LimbBits)) % 2

\* a mod 2^s = 0
NLowZero(a, s) ==
    /\ \A i \in 1..(s \div LimbBits) : NLimb(a, i) = 0
    /\ NLimb(a, s \div LimbBits + 1) % 2 ^ (s % LimbBits) = 0

\* number of bits of a limb x > 0
LimbBitLen(x) ==
    IF x < 128
      THEN IF x < 8 THEN (IF x < 2 THEN 1 ELSE IF x < 4 THEN 2 ELSE 3)
           ELSE IF x < 32 THEN (IF x < 16 THEN 4 ELSE 5)
           ELSE (IF x < 64 THEN 6 ELSE 7)
      ELSE IF x < 1024 THEN (IF x < 256 THEN 8 ELSE IF x < 512 THEN 9 ELSE 10)
           ELSE IF x < 4096 THEN (IF x < 2048 THEN 11 ELSE 12)
           ELSE (IF x < 8192 THEN 13 ELSE 14)

\* number of bits of a
NBitLen(a) ==
    IF a = <<>> THEN 0 ELSE LimbBits * (Len(a) - 1) + LimbBitLen(a[Len(a)])

\* number of trailing zero bits of a limb x > 0
RECURSIVE LimbTrailing(_)
LimbTrailing(x) == IF x % 2 = 1 THEN 0 ELSE 1 + LimbTrailing(x \div 2)

\* number of trailing zero bits of a > 0, counted from limb i
RECURSIVE NTrailing(_, _)
NTrailing(a, i) ==
    IF a[i] = 0 THEN LimbBits + NTrailing(a, i + 1) ELSE LimbTrailing(a[i])

----------------------------------------------------------------------------
(* Python floats (IEEE-754 binary64, round to nearest, ties to even): the   *)
(* value s * m * 2^e with s the sign (0 for zero), m an odd natural of at   *)
(* most MantBits bits and e an integer.  No value of the model is near the  *)
(* overflow or the subnormal range.  0.0 and -0.0 are one value (they are   *)
(* equal in Python and no operation below tells them apart).                *)

MantBits == 53

Zero == [s |-> 0, m |-> <<>>, e |-> 0]

\* s * m * 2^e with the trailing zero bits of m moved into the exponent
FOdd(s, m, e) ==
    LET tz == NTrailing(m, 1)
    IN  [s |-> s, m |-> NShr(m, tz), e |-> e + tz]

\* the float nearest to s * m * 2^e
FRound(s, m, e) ==
    LET d == NBitLen(m) - MantBits
        q == NShr(m, d)
        up == /\ NBit(m, d - 1) = 1
              /\ (~NLowZero(m, d - 1) \/ NBit(q, 0) = 1)
    IN  IF m = <<>> THEN Zero
        ELSE IF d <= 0 THEN FOdd(s, m, e)
        ELSE FOdd(s, IF up THEN NAdd(q, <<1>>) ELSE q, e + d)

\* float(n) for an int n of small magnitude
Float(n) ==
    IF n = 0 THEN Zero
    ELSE IF n < 0 THEN FOdd(-1, <<-n>>, 0) ELSE FOdd(1, <<n>>, 0)

\* -a
FNeg(a) == [s |-> -a.s, m |-> a.m, e |-> a.e]

\* exponent of the power of two just above |a|, for a # 0
FTop(a) == a.e + NBitLen(a.m)

\* a + b
FAdd(a, b) ==
    LET ta == FTop(a)
        tb == FTop(b)
        e == IF a.e < b.e THEN a.e ELSE b.e
        ma == NShl(a.m, a.e - e)
        mb == NShl(b.m, b.e - e)
        cmp == NCmp(ma, mb)
    IN  IF a.s = 0 THEN b
        ELSE IF b.s = 0 THEN a
        \* the smaller operand is below a quarter of the last bit of the larger
        ELSE IF tb <= ta - MantBits - 2 THEN a
        ELSE IF ta <= tb - MantBits - 2 THEN b
        ELSE IF a.s = b.s THEN FRound(a.s, NAdd(ma, mb), e)
        ELSE IF cmp = 0 THEN Zero
        ELSE IF cmp > 0 THEN FRound(a.s, NSub(ma, mb), e)
        ELSE FRound(b.s, NSub(mb, ma), e)

\* a - b
FSub(a, b) == FAdd(a, FNeg(b))

\* a * b; a product with a power of two is exact
FMul(a, b) ==
    IF a.s = 0 \/ b.s = 0 THEN Zero
    ELSE IF b.m = <<1>> THEN [s |-> a.s * b.s, m |-> a.m, e |-> a.e + b.e]
    ELSE IF a.m = <<1>> THEN [s |-> a.s * b.s, m |-> b.m, e |-> a.e + b.e]
    ELSE FRound(a.s * b.s, NMul(a.m, b.m), a.e + b.e)

\* a / 2
FHalf(a) == IF a.s = 0 THEN a ELSE [s |-> a.s, m |-> a.m, e |-> a.e - 1]

\* a < b
FLess(a, b) == FSub(a, b).s < 0

\* |a - b| < 2^(-bits)
FClose(a, b, bits) ==
    LET d == FSub(a, b) IN d.s = 0 \/ FTop(d) <= -bits

----------------------------------------------------------------------------
(* class Handle(IntEnum) *)

TOP_RIGHT == 0
MIDDLE_RIGHT == 1
BOTTOM_RIGHT == 2
TOP_LEFT == 3
MIDDLE_LEFT == 4
BOTTOM_LEFT == 5
TOP_MIDDLE == 6
BOTTOM_MIDDLE == 7

Handle == {TOP_RIGHT, MIDDLE_RIGHT, BOTTOM_RIGHT, TOP_LEFT, MIDDLE_LEFT,
           BOTTOM_LEFT, TOP_MIDDLE, BOTTOM_MIDDLE}

\* the handle parameter is not checked: any int can be passed
HandleArgs == Handle \cup {BOTTOM_MIDDLE + 1}

----------------------------------------------------------------------------
(* Values *)

\* Python's None: what a function returns when it falls off its end
None == [none |-> TRUE]

\* Point(x, y)
Point(px, py) == [x |-> px, y |-> py]

\* Rectangle(x, y, width, height)
Rectangle(rx, ry, rw, rh) == [x |-> rx, y |-> ry, width |-> rw, height |-> rh]

\* Rectangle.pcenter
pcenter(r) == Point(FAdd(r.x, FHalf(r.width)), FAdd(r.y, FHalf(r.height)))

\* Point.__getitem__: the value, or the exception raised
getitem(p, index) ==
    IF index = 0 THEN [value |-> p.x, raised |-> ""]
    ELSE IF index = 1 THEN [value |-> p.y, raised |-> ""]
    ELSE [value |-> None, raised |-> "IndexError"]

\* the doubles 0.1 and 0.2 (0x1.999999999999ap-4 and 0x1.999999999999ap-3)
Tenth == [s |-> 1, m |-> <<3277, 13107, 3276, 819>>, e |-> -55]
Fifth == [s |-> 1, m |-> <<3277, 13107, 3276, 819>>, e |-> -54]

\* the inputs: coordinates that are multiples of 4, and 0.1; sizes that are
\* multiples of 4, and 0.2, so that the sums and differences of the inputs
\* are not all exact and width and height differ in magnitude
Coords == {Float(4 * k - 4) : k \in 0..MaxCoord} \cup {Tenth}
Sizes == {Float(4 * k) : k \in 1..MaxSize} \cup {Fifth}
Angles == {90 * k : k \in -1..MaxTurns}
Indices == -1..MaxIndex

Points == {Point(px, py) : px \in Coords, py \in Coords}
Rectangles == {Rectangle(rx, ry, rw, rh) :
                 rx \in Coords, ry \in Coords, rw \in Sizes, rh \in Sizes}

----------------------------------------------------------------------------
(* rotate *)

\* math.cos(math.radians(a)) for a multiple of 90 up to two turns: the
\* doubles the math module returns, 1.0 and -1.0 at the even multiples and
\* at the odd ones 6.123233995736766e-17 (90, -90), -1.8369701987210297e-16
\* (270, -270), 3.061616997868383e-16 (450, -450), -4.286263797015736e-16
\* (630, -630)
Cos(a) ==
    CASE a = -720 -> [s |-> 1, m |-> <<1>>, e |-> 0]
      [] a = -630 -> [s |-> -1, m |-> <<10307, 6499, 2827, 494>>, e |-> -102]
      [] a = -540 -> [s |-> -1, m |-> <<1>>, e |-> 0]
      [] a = -450 -> [s |-> 1, m |-> <<13065, 16229, 15099, 1411>>, e |-> -104]
      [] a = -360 -> [s |-> 1, m |-> <<1>>, e |-> 0]
      [] a = -270 -> [s |-> -1, m |-> <<1285, 6461, 2506, 847>>, e |-> -104]
      [] a = -180 -> [s |-> -1, m |-> <<1>>, e |-> 0]
      [] a = -90 -> [s |-> 1, m |-> <<7175, 3153, 8803, 1129>>, e |-> -106]
      [] a = 0 -> [s |-> 1, m |-> <<1>>, e |-> 0]
      [] a = 90 -> [s |-> 1, m |-> <<7175, 3153, 8803, 1129>>, e |-> -106]
      [] a = 180 -> [s |-> -1, m |-> <<1>>, e |-> 0]
      [] a = 270 -> [s |-> -1, m |-> <<1285, 6461, 2506, 847>>, e |-> -104]
      [] a = 360 -> [s |-> 1, m |-> <<1>>, e |-> 0]
      [] a = 450 -> [s |-> 1, m |-> <<13065, 16229, 15099, 1411>>, e |-> -104]
      [] a = 540 -> [s |-> -1, m |-> <<1>>, e |-> 0]
      [] a = 630 -> [s |-> -1, m |-> <<10307, 6499, 2827, 494>>, e |-> -102]
      [] a = 720 -> [s |-> 1, m |-> <<1>>, e |-> 0]

\* math.sin(math.radians(a)) for a multiple of 90 up to two turns: 0.0 at 0,
\* 1.0 and -1.0 at the odd multiples, and at the even ones
\* 1.2246467991473532e-16 (180), -2.4492935982947064e-16 (360),
\* 3.6739403974420594e-16 (540), -4.898587196589413e-16 (720), negated at
\* the negative angles
Sin(a) ==
    CASE a = -720 -> [s |-> 1, m |-> <<7175, 3153, 8803, 1129>>, e |-> -103]
      [] a = -630 -> [s |-> 1, m |-> <<1>>, e |-> 0]
      [] a = -540 -> [s |-> -1, m |-> <<1285, 6461, 2506, 847>>, e |-> -103]
      [] a = -450 -> [s |-> -1, m |-> <<1>>, e |-> 0]
      [] a = -360 -> [s |-> 1, m |-> <<7175, 3153, 8803, 1129>>, e |-> -104]
      [] a = -270 -> [s |-> 1, m |-> <<1>>, e |-> 0]
      [] a = -180 -> [s |-> -1, m |-> <<7175, 3153, 8803, 1129>>, e |-> -105]
      [] a = -90 -> [s |-> -1, m |-> <<1>>, e |-> 0]
      [] a = 0 -> [s |-> 0, m |-> <<>>, e |-> 0]
      [] a = 90 -> [s |-> 1, m |-> <<1>>, e |-> 0]
      [] a = 180 -> [s |-> 1, m |-> <<7175, 3153, 8803, 1129>>, e |-> -105]
      [] a = 270 -> [s |-> -1, m |-> <<1>>, e |-> 0]
      [] a = 360 -> [s |-> -1, m |-> <<7175, 3153, 8803, 1129>>, e |-> -104]
      [] a = 450 -> [s |-> 1, m |-> <<1>>, e |-> 0]
      [] a = 540 -> [s |-> 1, m |-> <<1285, 6461, 2506, 847>>, e |-> -103]
      [] a = 630 -> [s |-> -1, m |-> <<1>>, e |-> 0]
      [] a = 720 -> [s |-> -1, m |-> <<7175, 3153, 8803, 1129>>, e |-> -103]

\* rotate with the sine term of x' added instead of subtracted
rotate_same_sign(point, origin, a) ==
    Point(FAdd(FAdd(FMul(FSub(point.x, origin.x), Cos(a)),
                    FMul(FSub(point.y, origin.y), Sin(a))), origin.x),
          FAdd(FAdd(FMul(FSub(point.x, origin.x), Sin(a)),
                    FMul(FSub(point.y, origin.y), Cos(a))), origin.y))

\* (px - ox) * cos - (py - oy) * sin + ox,  (px - ox) * sin + (py - oy) * cos + oy
rotate(point, origin, a) ==
    Point(FAdd(FSub(FMul(FSub(point.x, origin.x), Cos(a)),
                    FMul(FSub(point.y, origin.y), Sin(a))), origin.x),
          FAdd(FAdd(FMul(FSub(point.x, origin.x), Sin(a)),
                    FMul(FSub(point.y, origin.y), Cos(a))), origin.y))

----------------------------------------------------------------------------
(* adjust_points: the pair (A', C') as a tuple *)

\* adjust_points rotating back about the supplied centre, not the new one
adjust_points_old_center(a, c, o, ang) ==
    LET rotated_a == rotate(a, o, ang)
    IN  <<rotate(rotated_a, o, -ang), rotate(c, o, -ang)>>

\* adjust_points without the first rotation of corner A
adjust_points_skip_rotate(a, c, o, ang) ==
    LET new_center == Point(FHalf(FAdd(a.x, c.x)), FHalf(FAdd(a.y, c.y)))
    IN  <<rotate(a, new_center, -ang), rotate(c, new_center, -ang)>>

\* adjust_points rotating by +angle, not -angle, about the new centre
adjust_points_forward(a, c, o, ang) ==
    LET rotated_a == rotate(a, o, ang)
        new_center == Point(FHalf(FAdd(rotated_a.x, c.x)),
                            FHalf(FAdd(rotated_a.y, c.y)))
    IN  <<rotate(rotated_a, new_center, ang), rotate(c, new_center, ang)>>

adjust_points(a, c, o, ang) ==
    LET rotated_a == rotate(a, o, ang)
        new_center == Point(FHalf(FAdd(rotated_a.x, c.x)),
                            FHalf(FAdd(rotated_a.y, c.y)))
    IN  <<rotate(rotated_a, new_center, -ang), rotate(c, new_center, -ang)>>

----------------------------------------------------------------------------
(* get_adjusted_point: the pair (fixed, moving) as a tuple, or None when no *)
(* case of the match statement matches                                      *)

\* get_adjusted_point returning the interpolated point of an edge handle in
\* the local frame, without rotating it back into world space
get_adjusted_point_local(r, t, ang, h) ==
    LET normal_c == rotate(t, pcenter(r), -ang)
        interpolated_x == Point(normal_c.x, FAdd(r.y, r.height))
        interpolated_y == Point(FAdd(r.x, r.width), normal_c.y)
    IN  CASE h = TOP_RIGHT -> <<Point(r.x, r.y), t>>
          [] h = MIDDLE_RIGHT -> <<Point(r.x, r.y), interpolated_x>>
          [] h = BOTTOM_RIGHT -> <<Point(r.x, FAdd(r.y, r.height)), t>>
          [] h = TOP_LEFT -> <<Point(FAdd(r.x, r.width), r.y), t>>
          [] h = MIDDLE_LEFT -> <<Point(FAdd(r.x, r.width), r.y), interpolated_x>>
          [] h = BOTTOM_LEFT ->
                <<Point(FAdd(r.x, r.width), FAdd(r.y, r.height)), t>>
          [] h = TOP_MIDDLE -> <<Point(r.x, r.y), interpolated_y>>
          [] h = BOTTOM_MIDDLE ->
                <<Point(r.x, FAdd(r.y, r.height)), interpolated_y>>
          [] OTHER -> None

\* get_adjusted_point treating every handle as a corner handle: the moving
\* point is the target
get_adjusted_point_target(r, t, ang, h) ==
    CASE h \in {TOP_RIGHT, MIDDLE_RIGHT, TOP_MIDDLE} -> <<Point(r.x, r.y), t>>
      [] h \in {BOTTOM_RIGHT, BOTTOM_MIDDLE} ->
            <<Point(r.x, FAdd(r.y, r.height)), t>>
      [] h \in {TOP_LEFT, MIDDLE_LEFT} -> <<Point(FAdd(r.x, r.width), r.y), t>>
      [] h = BOTTOM_LEFT -> <<Point(FAdd(r.x, r.width), FAdd(r.y, r.height)), t>>
      [] OTHER -> None

get_adjusted_point(r, t, ang, h) ==
    LET normal_c == rotate(t, pcenter(r), -ang)
        interpolated_x == Point(normal_c.x, FAdd(r.y, r.height))
        interpolated_y == Point(FAdd(r.x, r.width), normal_c.y)
    IN  CASE h = TOP_RIGHT -> <<Point(r.x, r.y), t>>
          [] h = MIDDLE_RIGHT ->
                <<Point(r.x, r.y), rotate(interpolated_x, pcenter(r), ang)>>
          [] h = BOTTOM_RIGHT -> <<Point(r.x, FAdd(r.y, r.height)), t>>
          [] h = TOP_LEFT -> <<Point(FAdd(r.x, r.width), r.y), t>>
          [] h = MIDDLE_LEFT ->
                <<Point(FAdd(r.x, r.width), r.y),
                  rotate(interpolated_x, pcenter(r), ang)>>
          [] h = BOTTOM_LEFT ->
                <<Point(FAdd(r.x, r.width), FAdd(r.y, r.height)), t>>
          [] h = TOP_MIDDLE ->
                <<Point(r.x, r.y), rotate(interpolated_y, pcenter(r), ang)>>
          [] h = BOTTOM_MIDDLE ->
                <<Point(r.x, FAdd(r.y, r.height)),
                  rotate(interpolated_y, pcenter(r), ang)>>
          [] OTHER -> None

----------------------------------------------------------------------------
(* to_rect: the Rectangle, or None when no case matches *)

FAbs(v) == IF v.s < 0 THEN FNeg(v) ELSE v

\* to_rect normalising the rectangle: no negative width or height
to_rect_normalised(a, c, h) ==
    CASE h \in Handle ->
            Rectangle(IF FLess(a.x, c.x) THEN a.x ELSE c.x,
                      IF FLess(a.y, c.y) THEN a.y ELSE c.y,
                      FAbs(FSub(c.x, a.x)), FAbs(FSub(c.y, a.y)))
      [] OTHER -> None

\* to_rect whose BOTTOM_RIGHT case forgets to move y down by the height
to_rect_bottom_y(a, c, h) ==
    CASE h \in {TOP_RIGHT, MIDDLE_RIGHT, TOP_MIDDLE} ->
            Rectangle(a.x, a.y, FSub(c.x, a.x), FSub(c.y, a.y))
      [] h = BOTTOM_RIGHT ->
            LET height == FSub(a.y, c.y)
            IN  Rectangle(a.x, a.y, FSub(c.x, a.x), height)
      [] h \in {TOP_LEFT, MIDDLE_LEFT} ->
            LET height == FSub(c.y, a.y)
            IN  Rectangle(c.x, FSub(c.y, height), FSub(a.x, c.x), height)
      [] h = BOTTOM_LEFT -> Rectangle(c.x, c.y, FSub(a.x, c.x), FSub(a.y, c.y))
      [] h = BOTTOM_MIDDLE -> Rectangle(a.x, c.y, FSub(c.x, a.x), FSub(a.y, c.y))
      [] OTHER -> None

\* to_rect whose first case takes the moving point as the size
to_rect_point_as_size(a, c, h) ==
    CASE h \in {TOP_RIGHT, MIDDLE_RIGHT, TOP_MIDDLE} -> Rectangle(a.x, a.y, c.x, c.y)
      [] h = BOTTOM_RIGHT ->
            LET height == FSub(a.y, c.y)
            IN  Rectangle(a.x, FSub(a.y, height), FSub(c.x, a.x), height)
      [] h \in {TOP_LEFT, MIDDLE_LEFT} ->
            LET height == FSub(c.y, a.y)
            IN  Rectangle(c.x, FSub(c.y, height), FSub(a.x, c.x), height)
      [] h = BOTTOM_LEFT -> Rectangle(c.x, c.y, FSub(a.x, c.x), FSub(a.y, c.y))
      [] h = BOTTOM_MIDDLE -> Rectangle(a.x, c.y, FSub(c.x, a.x), FSub(a.y, c.y))
      [] OTHER -> None

to_rect(a, c, h) ==
    CASE h \in {TOP_RIGHT, MIDDLE_RIGHT, TOP_MIDDLE} ->
            Rectangle(a.x, a.y, FSub(c.x, a.x), FSub(c.y, a.y))
      [] h = BOTTOM_RIGHT ->
            LET height == FSub(a.y, c.y)
            IN  Rectangle(a.x, FSub(a.y, height), FSub(c.x, a.x), height)
      [] h \in {TOP_LEFT, MIDDLE_LEFT} ->
            LET height == FSub(c.y, a.y)
            IN  Rectangle(c.x, FSub(c.y, height), FSub(a.x, c.x), height)
      [] h = BOTTOM_LEFT -> Rectangle(c.x, c.y, FSub(a.x, c.x), FSub(a.y, c.y))
      [] h = BOTTOM_MIDDLE -> Rectangle(a.x, c.y, FSub(c.x, a.x), FSub(a.y, c.y))
      [] OTHER -> None

----------------------------------------------------------------------------
(* The caller's inputs *)

\* local (unrotated) position of a handle on the rectangle's outline
HandleLocal(r, h) ==
    CASE h = TOP_RIGHT -> Point(FAdd(r.x, r.width), FAdd(r.y, r.height))
      [] h = MIDDLE_RIGHT -> Point(FAdd(r.x, r.width), FAdd(r.y, FHalf(r.height)))
      [] h = BOTTOM_RIGHT -> Point(FAdd(r.x, r.width), r.y)
      [] h = TOP_LEFT -> Point(r.x, FAdd(r.y, r.height))
      [] h = MIDDLE_LEFT -> Point(r.x, FAdd(r.y, FHalf(r.height)))
      [] h = BOTTOM_LEFT -> Point(r.x, r.y)
      [] h = TOP_MIDDLE -> Point(FAdd(r.x, FHalf(r.width)), FAdd(r.y, r.height))
      [] h = BOTTOM_MIDDLE -> Point(FAdd(r.x, FHalf(r.width)), r.y)

\* where the handle is drawn when the rectangle is rotated about its centre
HandlePosition(r, h, ang) == rotate(HandleLocal(r, h), pcenter(r), ang)

\* targets of a drag: the grid points, and the handle's own position
Targets(r, h, ang) ==
    Points \cup (IF h \in Handle THEN {HandlePosition(r, h, ang)} ELSE {})

Origin == Point(Zero, Zero)

----------------------------------------------------------------------------
(* Sessions *)

InitDrag ==
    /\ session = "drag"
    /\ rectangle \in Rectangles
    /\ angle \in Angles
    /\ handle \in HandleArgs
    /\ target \in Targets(rectangle, handle, angle)
    /\ corner_a = Origin /\ corner_c = Origin /\ center = Origin

InitPoints ==
    /\ session = "points"
    /\ corner_a \in Points /\ corner_c \in Points /\ center \in Points
    /\ angle \in Angles
    /\ handle = TOP_RIGHT
    /\ rectangle = Rectangle(Zero, Zero, Zero, Zero) /\ target = Origin

Init ==
    /\ calls = <<>>
    /\ ret = None
    /\ raised = ""
    /\ (InitDrag \/ InitPoints)

Last(s) == s[Len(s)]

\* a, c = get_adjusted_point(rectangle, target, angle, handle); the caller
\* keeps the pair and the rectangle's centre for the calls that follow
CallGetAdjustedPoint ==
    /\ session = "drag" /\ calls = <<>>
    /\ ret' = get_adjusted_point(rectangle, target, angle, handle)
    /\ IF ret' = None
         THEN UNCHANGED <<corner_a, corner_c, center>>
         ELSE /\ corner_a' = ret'[1]
              /\ corner_c' = ret'[2]
              /\ center' = pcenter(rectangle)
    /\ calls' = Append(calls, "get_adjusted_point")
    /\ UNCHANGED <<session, rectangle, target, angle, handle, raised>>

\* adjust_points(corner_a, corner_c, center, angle)
CallAdjustPoints ==
    /\ \/ session = "points" /\ calls = <<>>
       \/ calls = <<"get_adjusted_point">> /\ ret # None
    /\ ret' = adjust_points(corner_a, corner_c, center, angle)
    /\ calls' = Append(calls, "adjust_points")
    /\ UNCHANGED <<session, rectangle, target, angle, handle,
                   corner_a, corner_c, center, raised>>

\* to_rect(corner_a, corner_c, handle), or to_rect(a', c', handle) on the
\* pair adjust_points returned
CallToRect ==
    /\ \/ session = "points" /\ calls = <<>>
       \/ calls = <<"get_adjusted_point">> /\ ret # None
       \/ calls = <<"get_adjusted_point", "adjust_points">>
    /\ \E h \in (IF session = "points" THEN HandleArgs ELSE {handle}) :
          /\ handle' = h
          /\ ret' = IF calls # <<>> /\ Last(calls) = "adjust_points"
                      THEN to_rect(ret[1], ret[2], h)
                      ELSE to_rect(corner_a, corner_c, h)
    /\ calls' = Append(calls, "to_rect")
    /\ UNCHANGED <<session, rectangle, target, angle,
                   corner_a, corner_c, center, raised>>

\* rotate(corner_a, center, angle)
CallRotate ==
    /\ session = "points" /\ calls = <<>>
    /\ ret' = rotate(corner_a, center, angle)
    /\ calls' = Append(calls, "rotate")
    /\ UNCHANGED <<session, rectangle, target, angle, handle,
                   corner_a, corner_c, center, raised>>

\* rotate(p, center, -angle) on the point p the first rotation returned
CallRotateBack ==
    /\ calls = <<"rotate">>
    /\ ret' = rotate(ret, center, -angle)
    /\ calls' = Append(calls, "rotate")
    /\ UNCHANGED <<session, rectangle, target, angle, handle,
                   corner_a, corner_c, center, raised>>

\* corner_a[index]
CallGetItem ==
    /\ session = "points" /\ calls = <<>>
    /\ \E index \in Indices :
          /\ ret' = getitem(corner_a, index).value
          /\ raised' = getitem(corner_a, index).raised
    /\ calls' = Append(calls, "__getitem__")
    /\ UNCHANGED <<session, rectangle, target, angle, handle,
                   corner_a, corner_c, center>>

Next ==
    \/ CallGetAdjustedPoint
    \/ CallAdjustPoints
    \/ CallToRect
    \/ CallRotate
    \/ CallRotateBack
    \/ CallGetItem

Spec == Init /\ [][Next]_vars

----------------------------------------------------------------------------
(* Properties *)

\* to_rect was called on (corner_a, corner_c, handle)
DirectToRect == calls \in {<<"to_rect">>, <<"get_adjusted_point", "to_rect">>}

\* the drag pipeline without and with adjust_points
DragDirect == calls = <<"get_adjusted_point", "to_rect">>
DragAdjusted == calls = <<"get_adjusted_point", "adjust_points", "to_rect">>

EdgeX == {MIDDLE_RIGHT, MIDDLE_LEFT}
EdgeY == {TOP_MIDDLE, BOTTOM_MIDDLE}

\* equal within floating-point tolerance
Near(a, b) == FClose(a, b, TolBits)
NearPoint(p, q) == Near(p.x, q.x) /\ Near(p.y, q.y)
NearRect(r, q) ==
    /\ Near(r.x, q.x) /\ Near(r.y, q.y)
    /\ Near(r.width, q.width) /\ Near(r.height, q.height)

\* C1: to_rect(fixed, moving, handle) returns, for each of the eight handles,
\* the rectangle of the formula table; width and height are the signed
\* differences, never clamped, and nothing is raised.
C1_ToRectTable ==
    (DirectToRect /\ handle \in Handle) =>
        LET fixed == corner_a
            moving == corner_c
            HBR == FSub(fixed.y, moving.y)
            HTL == FSub(moving.y, fixed.y)
        IN  /\ raised = ""
            /\ handle \in {TOP_RIGHT, MIDDLE_RIGHT, TOP_MIDDLE} =>
                  ret = [x |-> fixed.x, y |-> fixed.y,
                         width |-> FSub(moving.x, fixed.x),
                         height |-> FSub(moving.y, fixed.y)]
            /\ handle = BOTTOM_RIGHT =>
                  ret = [x |-> fixed.x, y |-> FSub(fixed.y, HBR),
                         width |-> FSub(moving.x, fixed.x), height |-> HBR]
            /\ handle \in {TOP_LEFT, MIDDLE_LEFT} =>
                  ret = [x |-> moving.x, y |-> FSub(moving.y, HTL),
                         width |-> FSub(fixed.x, moving.x), height |-> HTL]
            /\ handle = BOTTOM_LEFT =>
                  ret = [x |-> moving.x, y |-> moving.y,
                         width |-> FSub(fixed.x, moving.x),
                         height |-> FSub(fixed.y, moving.y)]
            /\ handle = BOTTOM_MIDDLE =>
                  ret = [x |-> fixed.x, y |-> moving.y,
                         width |-> FSub(moving.x, fixed.x),
                         height |-> FSub(fixed.y, moving.y)]

\* C1 witness: a BOTTOM_RIGHT reconstruction whose moving point lies left of
\* and above the fixed point, giving a negative width and a negative height.
C1_Witness ==
    /\ calls = <<"to_rect">>
    /\ handle = BOTTOM_RIGHT
    /\ FLess(corner_c.x, corner_a.x) /\ FLess(corner_a.y, corner_c.y)
    /\ ret # None
    /\ ret.width.s < 0 /\ ret.height.s < 0

\* C2: get_adjusted_point returns the (fixed, moving) pair of the table: the
\* fixed corner by handle, the target itself for the corner handles, and for
\* the edge handles the interpolated local point rotated by +angle about the
\* rectangle's centre.
C2_AdjustedPointTable ==
    (calls = <<"get_adjusted_point">> /\ handle \in Handle) =>
        LET x == rectangle.x
            y == rectangle.y
            w == rectangle.width
            h == rectangle.height
            c == [x |-> FAdd(x, FHalf(w)), y |-> FAdd(y, FHalf(h))]
            normalC == rotate(target, c, -angle)
            fixed == ret[1]
            moving == ret[2]
        IN  /\ handle \in {TOP_RIGHT, MIDDLE_RIGHT, TOP_MIDDLE} =>
                  fixed = [x |-> x, y |-> y]
            /\ handle \in {BOTTOM_RIGHT, BOTTOM_MIDDLE} =>
                  fixed = [x |-> x, y |-> FAdd(y, h)]
            /\ handle \in {TOP_LEFT, MIDDLE_LEFT} =>
                  fixed = [x |-> FAdd(x, w), y |-> y]
            /\ handle = BOTTOM_LEFT => fixed = [x |-> FAdd(x, w), y |-> FAdd(y, h)]
            /\ handle \in {TOP_RIGHT, BOTTOM_RIGHT, TOP_LEFT, BOTTOM_LEFT} =>
                  moving = target
            /\ handle \in EdgeX =>
                  moving = rotate([x |-> normalC.x, y |-> FAdd(y, h)], c, angle)
            /\ handle \in EdgeY =>
                  moving = rotate([x |-> FAdd(x, w), y |-> normalC.y], c, angle)

\* C2 witness: an edge handle resolved under a quarter turn, where the moving
\* point returned is not the target.
C2_Witness ==
    /\ calls = <<"get_adjusted_point">>
    /\ handle = MIDDLE_LEFT
    /\ angle = 90
    /\ ret # None
    /\ ~NearPoint(ret[2], target)

\* the four corners of a rectangle
Corners(r) ==
    {[x |-> r.x, y |-> r.y], [x |-> FAdd(r.x, r.width), y |-> r.y],
     [x |-> r.x, y |-> FAdd(r.y, r.height)],
     [x |-> FAdd(r.x, r.width), y |-> FAdd(r.y, r.height)]}

\* other (target, angle) pairs than those of the drag
OtherDrags == {<<Origin, 90>>, <<Point(Float(4), Float(-4)), 0>>}

\* the fixed point get_adjusted_point returns for rectangle r, and whether it
\* is the same for the other targets and angles
FixedCorner(r, td) == get_adjusted_point(r, td[1], td[2], handle)[1]

\* the fixed point of R is a corner of R and the same for other targets and
\* angles
FixedIsCornerOfR ==
    /\ corner_a \in Corners(rectangle)
    /\ \A td \in OtherDrags : FixedCorner(rectangle, td) = corner_a

\* C3 as stated: the fixed point get_adjusted_point returns is a corner of R,
\* depends on R and the handle only, and the rectangle
\* R' = to_rect(fixed, moving, handle) has its same-role corner at the same
\* coordinates: get_adjusted_point(R', t2, angle2, handle) returns the same
\* fixed point.
C3_FixedCornerStays ==
    (DragDirect /\ handle \in Handle) =>
        /\ FixedIsCornerOfR
        /\ \A td \in OtherDrags : FixedCorner(ret, td) = corner_a

\* an integer, as a float
Whole(v) == v.s = 0 \/ v.e >= 0

\* the rectangle and the target of the drag have integer coordinates
WholeDrag ==
    /\ Whole(rectangle.x) /\ Whole(rectangle.y)
    /\ Whole(rectangle.width) /\ Whole(rectangle.height)
    /\ Whole(target.x) /\ Whole(target.y)

\* C3 amended: as C3, with the fixed point of R' equal to that of R within
\* floating-point tolerance, and exactly equal at angle 0 on integer
\* coordinates.
C3_FixedCornerStaysNear ==
    (DragDirect /\ handle \in Handle) =>
        /\ FixedIsCornerOfR
        /\ \A td \in OtherDrags :
              LET fixed2 == FixedCorner(ret, td)
              IN  /\ NearPoint(fixed2, corner_a)
                  /\ (angle = 0 /\ WholeDrag) => fixed2 = corner_a

\* C3 witness: a BOTTOM_RIGHT drag under a rotation that changed the rectangle.
C3_Witness ==
    /\ DragDirect
    /\ handle = BOTTOM_RIGHT
    /\ angle = 90
    /\ ~NearRect(ret, rectangle)
    /\ ret.height # Zero

\* a drag of an edge handle left the dimension along the edge as it was
UntouchedDimensionKept ==
    /\ handle \in EdgeX => ret.height = rectangle.height
    /\ handle \in EdgeY => ret.width = rectangle.width

\* the same, within floating-point tolerance
UntouchedDimensionNear ==
    /\ handle \in EdgeX => Near(ret.height, rectangle.height)
    /\ handle \in EdgeY => Near(ret.width, rectangle.width)

\* C4 as stated: in the flow to_rect(get_adjusted_point(R, target, angle, h), h)
\* a drag of an edge handle keeps the height (MIDDLE_RIGHT, MIDDLE_LEFT) or the
\* width (TOP_MIDDLE, BOTTOM_MIDDLE) of R, for every angle.
C4_EdgeDragKeepsDimension ==
    (DragDirect /\ handle \in EdgeX \cup EdgeY) => UntouchedDimensionKept

\* C4 amended: the untouched dimension is kept in that flow, within
\* floating-point tolerance, when the angle is 0; for every multiple of 90 it
\* is kept, within floating-point tolerance, when the anchors go through
\* adjust_points(fixed, moving, R.centre, angle) before to_rect.
C4_EdgeDragKeepsDimensionAmended ==
    /\ (DragDirect /\ handle \in EdgeX \cup EdgeY /\ angle = 0) =>
          UntouchedDimensionNear
    /\ (DragAdjusted /\ handle \in EdgeX \cup EdgeY) => UntouchedDimensionNear

\* C4 witness: a MIDDLE_RIGHT drag under a quarter turn, through adjust_points,
\* that changed the width and kept the height.
C4_Witness ==
    /\ DragAdjusted
    /\ handle = MIDDLE_RIGHT
    /\ angle = 90
    /\ ~Near(ret.width, rectangle.width)
    /\ Near(ret.height, rectangle.height)
    /\ rectangle.height # Zero

\* the caller dragged TOP_RIGHT to (x+w, y+h) at angle 0 and reconstructed
IdentityDragTopRight ==
    /\ DragDirect
    /\ handle = TOP_RIGHT
    /\ angle = 0
    /\ target = [x |-> FAdd(rectangle.x, rectangle.width),
                 y |-> FAdd(rectangle.y, rectangle.height)]

\* C5 as stated: dragging TOP_RIGHT to its own position (x+w, y+h) at angle 0
\* and reconstructing gives a rectangle equal to R.
C5_IdentityDragTopRight == IdentityDragTopRight => ret = rectangle

\* C5 amended: it gives R back within floating-point tolerance: x and y are
\* those of R, width and height are those of R up to rounding.
C5_IdentityDragTopRightNear ==
    IdentityDragTopRight =>
        /\ ret.x = rectangle.x /\ ret.y = rectangle.y
        /\ Near(ret.width, rectangle.width)
        /\ Near(ret.height, rectangle.height)

\* C5 witness: such an identity drag of the rectangle (0.1, 0.1, 0.2, 0.2),
\* which comes back within the tolerance but with another width.
C5_Witness ==
    /\ IdentityDragTopRight
    /\ rectangle = Rectangle(Tenth, Tenth, Fifth, Fifth)
    /\ NearRect(ret, rectangle)
    /\ ret.width # rectangle.width

\* C6: a handle value that is none of the eight variants makes
\* get_adjusted_point and to_rect raise, not return.
C6_InvalidHandleRaises ==
    ( /\ calls # <<>>
      /\ Last(calls) \in {"get_adjusted_point", "to_rect"}
      /\ handle \notin Handle ) =>
        raised # ""

\* C7: rotating by an angle and then by the negated angle about the same
\* origin gives the point back, within floating-point tolerance.
C7_RotateInverse ==
    (calls = <<"rotate", "rotate">>) => NearPoint(ret, corner_a)

\* C7 witness: a point off the origin rotated by a quarter turn and back,
\* which comes back within the tolerance but not bit for bit.
C7_Witness ==
    /\ calls = <<"rotate", "rotate">>
    /\ angle = 90
    /\ corner_a.x # center.x /\ corner_a.y # center.y
    /\ NearPoint(ret, corner_a)
    /\ ret # corner_a

\* midpoint of two points
Mid(p, q) == [x |-> FHalf(FAdd(p.x, q.x)), y |-> FHalf(FAdd(p.y, q.y))]

\* adjust_points returned the two points rotated back about the new midpoint
AdjustPointsSteps ==
    LET RA == rotate(corner_a, center, angle)
        M == Mid(RA, corner_c)
    IN  ret = <<rotate(RA, M, -angle), rotate(corner_c, M, -angle)>>

\* C8 as stated: adjust_points(cornerA, cornerC, center, angle) is the pair
\* (rotate(RA, M, -angle), rotate(cornerC, M, -angle)) with
\* RA = rotate(cornerA, center, angle) and M the midpoint of RA and cornerC;
\* at angle 0 it is (cornerA, cornerC) unchanged.
C8_AdjustPointsSteps ==
    (calls = <<"adjust_points">>) =>
        /\ AdjustPointsSteps
        /\ angle = 0 => ret = <<corner_a, corner_c>>

\* C8 amended: the same pair; at angle 0 it is (cornerA, cornerC) within
\* floating-point tolerance.
C8_AdjustPointsStepsNear ==
    (calls = <<"adjust_points">>) =>
        /\ AdjustPointsSteps
        /\ angle = 0 =>
              (NearPoint(ret[1], corner_a) /\ NearPoint(ret[2], corner_c))

\* C8 witness: a quarter-turn adjustment whose new centre is not the supplied
\* one and which moved both corners.
C8_Witness ==
    /\ calls = <<"adjust_points">>
    /\ angle = 90
    /\ ~NearPoint(Mid(rotate(corner_a, center, angle), corner_c), center)
    /\ ~NearPoint(ret[1], corner_a) /\ ~NearPoint(ret[2], corner_c)

\* the caller dragged a handle to where it already is
IdentityDrag ==
    /\ DragAdjusted
    /\ handle \in Handle
    /\ target = HandlePosition(rectangle, handle, angle)

\* C9 as stated: dragging any handle of a rotated rectangle to where it
\* already is, and going through get_adjusted_point, adjust_points about the
\* rectangle's centre and to_rect, gives a rectangle equal to R.
C9_IdentityDragPipeline == IdentityDrag => ret = rectangle

\* C9 amended: it gives R back within floating-point tolerance.
C9_IdentityDragPipelineNear == IdentityDrag => NearRect(ret, rectangle)

\* C9 witness: an identity drag of BOTTOM_MIDDLE under a quarter turn, on a
\* rectangle with unequal, non-zero sides.
C9_Witness ==
    /\ IdentityDrag
    /\ handle = BOTTOM_MIDDLE
    /\ angle = 90
    /\ rectangle.width # rectangle.height
    /\ rectangle.width # Zero /\ rectangle.height # Zero
    /\ NearRect(ret, rectangle)

\* C10 as stated: with (A', C') = adjust_points(cornerA, cornerC, center, a)
\* and M' the midpoint of A' and C': M' is the midpoint of
\* rotate(cornerA, center, a) and cornerC, rotate(A', M', a) =
\* rotate(cornerA, center, a) and rotate(C', M', a) = cornerC.
C10_AdjustPointsKeepsWorld ==
    (calls = <<"adjust_points">>) =>
        LET RA == rotate(corner_a, center, angle)
            M1 == Mid(ret[1], ret[2])
        IN  /\ M1 = Mid(RA, corner_c)
            /\ rotate(ret[1], M1, angle) = RA
            /\ rotate(ret[2], M1, angle) = corner_c

\* C10 amended: the three equalities hold within floating-point tolerance.
C10_AdjustPointsKeepsWorldNear ==
    (calls = <<"adjust_points">>) =>
        LET RA == rotate(corner_a, center, angle)
            M1 == Mid(ret[1], ret[2])
        IN  /\ NearPoint(M1, Mid(RA, corner_c))
            /\ NearPoint(rotate(ret[1], M1, angle), RA)
            /\ NearPoint(rotate(ret[2], M1, angle), corner_c)

\* C10 witness: an adjustment under a half turn, of corners that do not
\* coincide, about a centre that is not the new one.
C10_Witness ==
    /\ calls = <<"adjust_points">>
    /\ angle = 180
    /\ corner_a # corner_c
    /\ ~NearPoint(Mid(ret[1], ret[2]), center)
    /\ NearPoint(rotate(ret[2], Mid(ret[1], ret[2]), angle), corner_c)

============================================================================
